---- MODULE Spec2Model ----
(***************************************************************************)
(* Model of the JWT token handlers and the payment service of the          *)
(* repository:                                                             *)
(*   src/src/token_generator/app.py  (generate_tokens,                     *)
(*                                    refresh_access_token, lambda_handler)*)
(*   src/src/authorizer/app.py       (generate_policy, lambda_handler)     *)
(*   src/src/utils/ssm/parameter.py  (get_parameter)                       *)
(*   src/layers/python/utils/database/dynamodb.py    (DynamoDBClient)      *)
(*   src/layers/python/utils/services/payment_service.py (PaymentService)  *)
(*   src/src/payment/register_payment.py             (lambda_handler)      *)
(*                                                                         *)
(* Python values are represented as follows.                               *)
(*   - a string is a sequence of atoms; an atom is a single space, a word  *)
(*     without spaces, or a compact JWT (which contains no space);         *)
(*   - a dictionary entry that may be missing is a tagged value            *)
(*     [k |-> "absent"], [k |-> "null"] or [k |-> "str", s |-> string];    *)
(*   - a call returns Ret(v) or Raise(exception class, message);           *)
(*   - a datetime is [sec, usec]; a NumericDate is an integer of seconds.  *)
(***************************************************************************)
EXTENDS Integers, Sequences, FiniteSets, TLC

\* ------------------------------------------------------------------- state
VARIABLES
    clock,      \* the wall clock, in whole seconds
    envSecret,  \* os.environ.get('AUTH_TOKEN_SECRET'), Absent when unset
    envPath,    \* whether os.environ has SSM_TOKEN_TIME_PATH
    ssmParam,   \* the value stored under /auth/token/time, ParamDown if the lookup fails
    wallet,     \* the token strings the handlers have returned to clients
    used,       \* the refresh tokens a successful refresh was made with
    resp,       \* the invocation whose outcome is being returned: its event and outcome
    earlier,    \* an earlier invocation of the authorizer, kept with its environment
    frames,     \* the calls in progress when invocations overlap: position and locals
    table,      \* the items of the DynamoDB table 'payments', by payment_id
    pay         \* the payment call being answered: its arguments, outcome and table requests

vars == <<clock, envSecret, envPath, ssmParam, wallet, used, resp, earlier, frames,
          table, pay>>

\* what the invocations of Spec, made one at a time, do not use
kept == <<earlier, frames, table, pay>>

\* ------------------------------------------------------------------ bounds
MaxTokens == 3       \* distinct tokens in circulation

\* ------------------------------------------------------- program constants
AccessLifetime == 3600       \* timedelta(hours=1), in seconds
RefreshLifetime == 604800    \* timedelta(days=7), in seconds
ExpiresIn == 3600            \* 'expires_in': 3600
Issuer == "lambda-api"

\* --------------------------------------------------------- input alphabets
Absent == "<absent>"         \* a dictionary key that is not there / None
Keys == {"k1", "k2"}         \* values AUTH_TOKEN_SECRET can hold
ForgerKey == "k0"            \* a key that is never the signing secret
Users == {"u1", "u2"}        \* non-empty subject identifiers
Arns == {"arn:a", "arn:b"}   \* method ARNs of the protected API
ParamValues == {60, 7200}    \* values stored under /auth/token/time
ParamDown == 0               \* the parameter lookup fails
Usecs == {0, 500000}         \* sub-second part of a clock reading

\* the environments explored: the working ones, and those with one lookup or
\* all lookups failing, as <<AUTH_TOKEN_SECRET, SSM_TOKEN_TIME_PATH set, parameter>>
Configs ==
    {<<"k1", TRUE, v>> : v \in ParamValues}
    \cup {<<"k2", TRUE, 60>>, <<Absent, TRUE, 60>>, <<"k1", FALSE, 60>>, <<"k1", TRUE, ParamDown>>,
          <<Absent, FALSE, ParamDown>>}

\* ------------------------------------------------------------ call results
Ret(v) == [ok |-> TRUE, val |-> v]
Raise(e, m) == [ok |-> FALSE, exc |-> e, msg |-> m]

\* ----------------------------------------------------------------- strings
SP == [c |-> "sp"]
Word(w) == [c |-> "word", text |-> w]
Str(s) == [k |-> "str", s |-> s]
NoValue == [k |-> "absent"]
NullValue == [k |-> "null"]

\* str.startswith('Bearer ')
StartsWithBearer(s) ==
    /\ Len(s) >= 2
    /\ s[1].c = "word" /\ s[1].text = "Bearer"
    /\ s[2].c = "sp"

\* str.split(' '): the segments between single spaces, empty ones included
RECURSIVE SplitFrom(_, _, _)
SplitFrom(s, i, cur) ==
    IF i > Len(s) THEN <<cur>>
    ELSE IF s[i].c = "sp" THEN <<cur>> \o SplitFrom(s, i + 1, <<>>)
    ELSE SplitFrom(s, i + 1, Append(cur, s[i]))

Split(s) == SplitFrom(s, 1, <<>>)

\* --------------------------------------------------------------- the clock
\* datetime.utcnow() at a moment whose whole second is sec
Utcnow(sec, usec) == [sec |-> sec, usec |-> usec]
\* datetime + timedelta(seconds)
PlusSeconds(dt, n) == [sec |-> dt.sec + n, usec |-> dt.usec]
\* calendar.timegm(dt.utctimetuple()): the microseconds are dropped
Timegm(dt) == dt.sec

\* ------------------------------------------------------------- token codec
\* HMAC-SHA256 over the signing input, idealised as an injective pairing
HS256(msg, key) == [key |-> key, msg |-> msg]

\* jwt.encode(payload, key, algorithm='HS256')
jwt_encode(payload, key) ==
    IF key = Absent THEN Raise("TypeError", "Expected a string value")
    ELSE LET claims == [sub  |-> payload.sub,
                        iat  |-> Timegm(payload.iat),
                        exp  |-> Timegm(payload.exp),
                        iss  |-> payload.iss,
                        type |-> payload.type]
         IN Ret(<<[c |-> "jwt", payload |-> claims, sig |-> HS256(claims, key)]>>)

\* jwt_decode with the expiry compared one minute early
jwt_decode_early(token, key, nowsec) ==
    IF ~(Len(token) = 1 /\ token[1].c = "jwt")
    THEN Raise("DecodeError", "Not enough segments")
    ELSE IF key = Absent THEN Raise("TypeError", "Expected a string value")
    ELSE IF token[1].sig # HS256(token[1].payload, key)
    THEN Raise("InvalidSignatureError", "Signature verification failed")
    ELSE IF token[1].payload.exp - 60 <= nowsec
    THEN Raise("ExpiredSignatureError", "Signature has expired")
    ELSE Ret(token[1].payload)

\* jwt_decode without the verification of exp
jwt_decode_noexp(token, key, nowsec) ==
    IF ~(Len(token) = 1 /\ token[1].c = "jwt")
    THEN Raise("DecodeError", "Not enough segments")
    ELSE IF key = Absent THEN Raise("TypeError", "Expected a string value")
    ELSE IF token[1].sig # HS256(token[1].payload, key)
    THEN Raise("InvalidSignatureError", "Signature verification failed")
    ELSE Ret(token[1].payload)

\* jwt_decode without the verification of the signature
jwt_decode_nosig(token, key, nowsec) ==
    IF ~(Len(token) = 1 /\ token[1].c = "jwt")
    THEN Raise("DecodeError", "Not enough segments")
    ELSE IF key = Absent THEN Raise("TypeError", "Expected a string value")
    ELSE IF token[1].payload.exp <= nowsec
    THEN Raise("ExpiredSignatureError", "Signature has expired")
    ELSE Ret(token[1].payload)

\* jwt.decode(token, key, algorithms=['HS256']) at clock second nowsec; every
\* payload of the model carries an exp claim
jwt_decode(token, key, nowsec) ==
    IF ~(Len(token) = 1 /\ token[1].c = "jwt")
    THEN Raise("DecodeError", "Not enough segments")
    ELSE IF key = Absent THEN Raise("TypeError", "Expected a string value")
    ELSE IF token[1].sig # HS256(token[1].payload, key)
    THEN Raise("InvalidSignatureError", "Signature verification failed")
    ELSE IF token[1].payload.exp <= nowsec
    THEN Raise("ExpiredSignatureError", "Signature has expired")
    ELSE Ret(token[1].payload)

\* the exception classes deriving from jwt.InvalidTokenError
InvalidTokenErrors == {"DecodeError", "InvalidSignatureError", "ExpiredSignatureError"}

\* -------------------------------------------------------- parameter store
\* get_parameter answering a default when the lookup fails
get_parameter_default(param) ==
    IF param = ParamDown THEN Ret(AccessLifetime) ELSE Ret(param)

\* utils.ssm.parameter.get_parameter(name)
get_parameter(param) ==
    IF param = ParamDown THEN Raise("Exception", "Error al obtener el parametro")
    ELSE Ret(param)

\* ----------------------------------------------------------- token issuing
\* generate_tokens taking the access lifetime from the /auth/token/time parameter
generate_tokens_param(user_id, secret, now) ==
    LET access_payload == [sub |-> user_id, iat |-> now,
                           exp |-> PlusSeconds(now, ssmParam),
                           iss |-> Issuer, type |-> "access"]
        refresh_payload == [sub |-> user_id, iat |-> now,
                            exp |-> PlusSeconds(now, RefreshLifetime),
                            iss |-> Issuer, type |-> "refresh"]
        access_token == jwt_encode(access_payload, secret)
        refresh_token == jwt_encode(refresh_payload, secret)
    IN IF ~access_token.ok THEN access_token
       ELSE IF ~refresh_token.ok THEN refresh_token
       ELSE Ret([access_token |-> access_token.val,
                 refresh_token |-> refresh_token.val])

\* generate_tokens(user_id), with now = datetime.utcnow()
generate_tokens(user_id, secret, now) ==
    LET access_payload == [sub |-> user_id, iat |-> now,
                           exp |-> PlusSeconds(now, AccessLifetime),
                           iss |-> Issuer, type |-> "access"]
        refresh_payload == [sub |-> user_id, iat |-> now,
                            exp |-> PlusSeconds(now, RefreshLifetime),
                            iss |-> Issuer, type |-> "refresh"]
        access_token == jwt_encode(access_payload, secret)
        refresh_token == jwt_encode(refresh_payload, secret)
    IN IF ~access_token.ok THEN access_token
       ELSE IF ~refresh_token.ok THEN refresh_token
       ELSE Ret([access_token |-> access_token.val,
                 refresh_token |-> refresh_token.val])

\* refresh_access_token without the check of the token type
refresh_access_token_notype(refresh_token, secret, now) ==
    LET decoded == jwt_decode(refresh_token, secret, Timegm(now))
    IN IF ~decoded.ok
       THEN IF decoded.exc = "ExpiredSignatureError"
            THEN Raise("ValueError", "Refresh token expirado")
            ELSE IF decoded.exc \in InvalidTokenErrors
            THEN Raise("ValueError", "Refresh token invalido")
            ELSE decoded
       ELSE IF decoded.val.sub = Absent
       THEN Raise("KeyError", "sub")
       ELSE LET access_payload == [sub |-> decoded.val.sub, iat |-> now,
                                   exp |-> PlusSeconds(now, AccessLifetime),
                                   iss |-> Issuer, type |-> "access"]
                new_access_token == jwt_encode(access_payload, secret)
            IN IF ~new_access_token.ok THEN new_access_token
               ELSE Ret([access_token |-> new_access_token.val])

\* refresh_access_token copying issued_at from the refresh token
refresh_access_token_iat(refresh_token, secret, now) ==
    LET decoded == jwt_decode(refresh_token, secret, Timegm(now))
    IN IF ~decoded.ok
       THEN IF decoded.exc = "ExpiredSignatureError"
            THEN Raise("ValueError", "Refresh token expirado")
            ELSE IF decoded.exc \in InvalidTokenErrors
            THEN Raise("ValueError", "Refresh token invalido")
            ELSE decoded
       ELSE IF decoded.val.type # "refresh"
       THEN Raise("ValueError", "Token tipo invalido")
       ELSE IF decoded.val.sub = Absent
       THEN Raise("KeyError", "sub")
       ELSE LET access_payload == [sub |-> decoded.val.sub,
                                   iat |-> Utcnow(decoded.val.iat, 0),
                                   exp |-> PlusSeconds(now, AccessLifetime),
                                   iss |-> Issuer, type |-> "access"]
                new_access_token == jwt_encode(access_payload, secret)
            IN IF ~new_access_token.ok THEN new_access_token
               ELSE Ret([access_token |-> new_access_token.val])

\* refresh_access_token refusing a refresh token that was used before
refresh_access_token_once(refresh_token, secret, now) ==
    LET decoded == jwt_decode(refresh_token, secret, Timegm(now))
    IN IF ~decoded.ok
       THEN IF decoded.exc = "ExpiredSignatureError"
            THEN Raise("ValueError", "Refresh token expirado")
            ELSE IF decoded.exc \in InvalidTokenErrors
            THEN Raise("ValueError", "Refresh token invalido")
            ELSE decoded
       ELSE IF decoded.val.type # "refresh"
       THEN Raise("ValueError", "Token tipo invalido")
       ELSE IF refresh_token \in used
       THEN Raise("ValueError", "Refresh token invalido")
       ELSE IF decoded.val.sub = Absent
       THEN Raise("KeyError", "sub")
       ELSE LET access_payload == [sub |-> decoded.val.sub, iat |-> now,
                                   exp |-> PlusSeconds(now, AccessLifetime),
                                   iss |-> Issuer, type |-> "access"]
                new_access_token == jwt_encode(access_payload, secret)
            IN IF ~new_access_token.ok THEN new_access_token
               ELSE Ret([access_token |-> new_access_token.val])

\* refresh_access_token giving the new access token the lifetime of a
\* refresh token
refresh_access_token_long(refresh_token, secret, now) ==
    LET decoded == jwt_decode(refresh_token, secret, Timegm(now))
    IN IF ~decoded.ok
       THEN IF decoded.exc = "ExpiredSignatureError"
            THEN Raise("ValueError", "Refresh token expirado")
            ELSE IF decoded.exc \in InvalidTokenErrors
            THEN Raise("ValueError", "Refresh token invalido")
            ELSE decoded
       ELSE IF decoded.val.type # "refresh"
       THEN Raise("ValueError", "Token tipo invalido")
       ELSE IF decoded.val.sub = Absent
       THEN Raise("KeyError", "sub")
       ELSE LET access_payload == [sub |-> decoded.val.sub, iat |-> now,
                                   exp |-> PlusSeconds(now, RefreshLifetime),
                                   iss |-> Issuer, type |-> "access"]
                new_access_token == jwt_encode(access_payload, secret)
            IN IF ~new_access_token.ok THEN new_access_token
               ELSE Ret([access_token |-> new_access_token.val])

\* refresh_access_token(refresh_token), with now = datetime.utcnow()
refresh_access_token(refresh_token, secret, now) ==
    LET decoded == jwt_decode(refresh_token, secret, Timegm(now))
    IN IF ~decoded.ok
       THEN IF decoded.exc = "ExpiredSignatureError"
            THEN Raise("ValueError", "Refresh token expirado")
            ELSE IF decoded.exc \in InvalidTokenErrors
            THEN Raise("ValueError", "Refresh token invalido")
            ELSE decoded
       ELSE IF decoded.val.type # "refresh"
       THEN Raise("ValueError", "Token tipo invalido")
       ELSE IF decoded.val.sub = Absent
       THEN Raise("KeyError", "sub")
       ELSE LET access_payload == [sub |-> decoded.val.sub, iat |-> now,
                                   exp |-> PlusSeconds(now, AccessLifetime),
                                   iss |-> Issuer, type |-> "access"]
                new_access_token == jwt_encode(access_payload, secret)
            IN IF ~new_access_token.ok THEN new_access_token
               ELSE Ret([access_token |-> new_access_token.val])

\* ------------------------------------------------------------ HTTP events
\* json.loads(event.get('body') or '{}'): a null body read as an empty object
json_loads_lenient(body) ==
    IF body.k \in {"absent", "null"}
    THEN Ret([j |-> "object", grant_type |-> Absent,
              user_id |-> Absent, refresh_token |-> NoValue])
    ELSE IF body.json.j = "invalid"
    THEN Raise("JSONDecodeError", "Expecting value")
    ELSE Ret(body.json)

\* json.loads(event.get('body', '{}'))
json_loads(body) ==
    IF body.k = "absent" THEN Ret([j |-> "object", grant_type |-> Absent,
                                   user_id |-> Absent, refresh_token |-> NoValue])
    ELSE IF body.k = "null"
    THEN Raise("TypeError", "the JSON object must be str, bytes or bytearray")
    ELSE IF body.json.j = "invalid"
    THEN Raise("JSONDecodeError", "Expecting value")
    ELSE Ret(body.json)

\* truthiness of body.get('user_id') and body.get('refresh_token')
Falsy(v) == v.k # "str" \/ v.s = <<>>

JsonHeaders == [ContentType |-> "application/json", AccessControlAllowOrigin |-> "*"]

ErrorResponse(status, message) ==
    [statusCode |-> status, body |-> [error |-> message]]

\* the token handler testing user_id against None only
token_lambda_handler_none(event, secret, param, now) ==
    LET token_time == get_parameter(param)
        parsed == json_loads(event.body)
        body == parsed.val
    IN IF ~token_time.ok THEN ErrorResponse(500, token_time.msg)
       ELSE IF ~parsed.ok THEN ErrorResponse(500, parsed.msg)
       ELSE IF body.j # "object"
       THEN ErrorResponse(500, "object has no attribute 'get'")
       ELSE IF body.grant_type = "password"
       THEN IF body.user_id = Absent
            THEN ErrorResponse(400, "user_id es requerido")
            ELSE LET tokens == generate_tokens(body.user_id, secret, now)
                 IN IF ~tokens.ok THEN ErrorResponse(500, tokens.msg)
                    ELSE [statusCode |-> 200,
                          headers |-> JsonHeaders,
                          body |-> [access_token |-> tokens.val.access_token,
                                    refresh_token |-> tokens.val.refresh_token,
                                    expires_in |-> ExpiresIn,
                                    token_type |-> "Bearer"]]
       ELSE IF body.grant_type = "refresh_token"
       THEN IF Falsy(body.refresh_token)
            THEN ErrorResponse(400, "refresh_token es requerido")
            ELSE LET new_tokens == refresh_access_token(body.refresh_token.s, secret, now)
                 IN IF new_tokens.ok
                    THEN [statusCode |-> 200,
                          headers |-> JsonHeaders,
                          body |-> [access_token |-> new_tokens.val.access_token,
                                    expires_in |-> ExpiresIn,
                                    token_type |-> "Bearer"]]
                    ELSE IF new_tokens.exc = "ValueError"
                    THEN ErrorResponse(401, new_tokens.msg)
                    ELSE ErrorResponse(500, new_tokens.msg)
       ELSE ErrorResponse(400, "grant_type invalido")

\* lambda_handler of token_generator/app.py
token_lambda_handler(event, secret, param, now) ==
    LET token_time == get_parameter(param)
        parsed == json_loads(event.body)
        body == parsed.val
    IN IF ~token_time.ok THEN ErrorResponse(500, token_time.msg)
       ELSE IF ~parsed.ok THEN ErrorResponse(500, parsed.msg)
       ELSE IF body.j # "object"
       THEN ErrorResponse(500, "object has no attribute 'get'")
       ELSE IF body.grant_type = "password"
       THEN IF body.user_id \in {Absent, ""}
            THEN ErrorResponse(400, "user_id es requerido")
            ELSE LET tokens == generate_tokens(body.user_id, secret, now)
                 IN IF ~tokens.ok THEN ErrorResponse(500, tokens.msg)
                    ELSE [statusCode |-> 200,
                          headers |-> JsonHeaders,
                          body |-> [access_token |-> tokens.val.access_token,
                                    refresh_token |-> tokens.val.refresh_token,
                                    expires_in |-> ExpiresIn,
                                    token_type |-> "Bearer"]]
       ELSE IF body.grant_type = "refresh_token"
       THEN IF Falsy(body.refresh_token)
            THEN ErrorResponse(400, "refresh_token es requerido")
            ELSE LET new_tokens == refresh_access_token(body.refresh_token.s, secret, now)
                 IN IF new_tokens.ok
                    THEN [statusCode |-> 200,
                          headers |-> JsonHeaders,
                          body |-> [access_token |-> new_tokens.val.access_token,
                                    expires_in |-> ExpiresIn,
                                    token_type |-> "Bearer"]]
                    ELSE IF new_tokens.exc = "ValueError"
                    THEN ErrorResponse(401, new_tokens.msg)
                    ELSE ErrorResponse(500, new_tokens.msg)
       ELSE ErrorResponse(400, "grant_type invalido")

\* -------------------------------------------------------------- authorizer
\* generate_policy granting or denying every resource of the API
generate_policy_wild(principal_id, effect, resource) ==
    [principalId |-> principal_id,
     policyDocument |->
        [Version |-> "2012-10-17",
         Statement |-> <<[Action |-> "execute-api:Invoke",
                          Effect |-> effect,
                          Resource |-> "*"]>>]]

\* generate_policy(principal_id, effect, resource)
generate_policy(principal_id, effect, resource) ==
    [principalId |-> principal_id,
     policyDocument |->
        [Version |-> "2012-10-17",
         Statement |-> <<[Action |-> "execute-api:Invoke",
                          Effect |-> effect,
                          Resource |-> resource]>>]]

\* the try block without the lookup of the token-time parameter
AuthorizerTry_nolookup(event, secret, pathSet, param, nowsec) ==
    LET hdr == event.authorizationToken
        auth_header == IF hdr.k = "absent" THEN <<>> ELSE hdr.s
        token == Split(auth_header)[2]
        decoded == jwt_decode(token, secret, nowsec)
    IN IF hdr.k = "null"
       THEN Raise("AttributeError", "'NoneType' object has no attribute 'startswith'")
       ELSE IF ~StartsWithBearer(auth_header)
       THEN Raise("Exception", "Format is Authorization: Bearer [token]")
       ELSE IF ~decoded.ok THEN decoded
       ELSE IF decoded.val.type # "access"
       THEN Raise("Exception", "Token tipo invalido - Se requiere access_token")
       ELSE IF decoded.val.sub = Absent THEN Raise("KeyError", "sub")
       ELSE IF event.methodArn = Absent THEN Raise("KeyError", "methodArn")
       ELSE Ret(generate_policy(decoded.val.sub, "Allow", event.methodArn))

\* the try block of lambda_handler of authorizer/app.py (lines 30-51)
AuthorizerTry(event, secret, pathSet, param, nowsec) ==
    LET hdr == event.authorizationToken
        auth_header == IF hdr.k = "absent" THEN <<>> ELSE hdr.s
        token == Split(auth_header)[2]
        token_time == get_parameter(param)
        decoded == jwt_decode(token, secret, nowsec)
    IN IF hdr.k = "null"
       THEN Raise("AttributeError", "'NoneType' object has no attribute 'startswith'")
       ELSE IF ~StartsWithBearer(auth_header)
       THEN Raise("Exception", "Format is Authorization: Bearer [token]")
       ELSE IF ~pathSet THEN Raise("KeyError", "SSM_TOKEN_TIME_PATH")
       ELSE IF ~token_time.ok THEN token_time
       ELSE IF ~decoded.ok THEN decoded
       ELSE IF decoded.val.type # "access"
       THEN Raise("Exception", "Token tipo invalido - Se requiere access_token")
       ELSE IF decoded.val.sub = Absent THEN Raise("KeyError", "sub")
       ELSE IF event.methodArn = Absent THEN Raise("KeyError", "methodArn")
       ELSE Ret(generate_policy(decoded.val.sub, "Allow", event.methodArn))

\* lambda_handler of authorizer/app.py: the try block and its except clause
authorizer_lambda_handler(event, secret, pathSet, param, nowsec) ==
    LET attempt == AuthorizerTry(event, secret, pathSet, param, nowsec)
    IN IF attempt.ok THEN attempt
       ELSE IF event.methodArn = Absent THEN Raise("KeyError", "methodArn")
       ELSE Ret(generate_policy("user", "Deny", event.methodArn))

\* ------------------------------------------------------- the payment table
\* A Python value of the payment code is a tagged record: [t |-> "missing"]
\* (no such key), [t |-> "none"], [t |-> "str", v |-> text],
\* [t |-> "num", n |-> integer] or [t |-> "dict", v |-> record].
Missing == [t |-> "missing"]
None == [t |-> "none"]
Text(x) == [t |-> "str", v |-> x]
Num(n) == [t |-> "num", n |-> n]
Dict(d) == [t |-> "dict", v |-> d]

\* the payment_ids of items the table may hold, and those uuid.uuid4() draws
StoredIds == {"p1", "p2"}
FreshIds == {"n1"}
PaymentIds == StoredIds \cup FreshIds

NoItem == [t |-> "none"]
EmptyTable == [id \in PaymentIds |-> NoItem]

\* an item of the table as the payment code writes it
Item(id, status, updated_at, metadata) ==
    [t |-> "item", payment_id |-> id, status |-> status,
     updated_at |-> updated_at, metadata |-> metadata]

\* the value the SET expression assigns to attribute name, old if it assigns
\* none; assignments is the sequence of <<name, value>> pairs
Assigned(assignments, name, old) ==
    LET hits == {i \in 1..Len(assignments) : assignments[i][1] = name}
    IN IF hits = {} THEN old
       ELSE assignments[CHOOSE i \in hits : \A j \in hits : j <= i][2]

\* Table.update_item(Key, UpdateExpression, ..., ReturnValues='ALL_NEW') of
\* boto3: the parameters are validated before anything is sent; the item
\* with the given key is created if the table has none
table_update_item(tbl, params) ==
    IF params.Key.t # "dict"
    THEN [res |-> Raise("ParamValidationError", "Invalid type for parameter Key"),
          table |-> tbl]
    ELSE IF params.Set = <<>>
    THEN [res |-> Raise("ClientError", "ValidationException"), table |-> tbl]
    ELSE LET id == params.Key.v.payment_id
             old == IF tbl[id] = NoItem THEN Item(id, "", "", None) ELSE tbl[id]
             new == Item(id, Assigned(params.Set, "status", old.status),
                         Assigned(params.Set, "updated_at", old.updated_at),
                         Assigned(params.Set, "metadata", old.metadata))
         IN [res |-> Ret([Attributes |-> new]),
             table |-> [tbl EXCEPT ![id] = new]]

\* Table.put_item(Item) of boto3
table_put_item(tbl, item) ==
    [res |-> Ret([Attributes |-> None]),
     table |-> [tbl EXCEPT ![item.payment_id] = item]]

\* DynamoDBClient.logger: what Logger.append_keys(table=...) returned
db_logger == None

\* a call of a method of the logger lg
LoggerCall(lg) ==
    IF lg = None
    THEN Raise("AttributeError", "'NoneType' object has no attribute 'info'")
    ELSE Ret(None)

\* DynamoDBClient.update_item(key, update_attrs): outcome, table afterwards
\* and the requests made to the table
update_item(tbl, key, update_attrs) ==
    LET last == Len(update_attrs)
        \* line 125: the loop variable is named key as well
        key_after == IF last = 0 THEN key ELSE Text(update_attrs[last][1])
        params == [Key |-> key_after, Set |-> update_attrs, ReturnValues |-> "ALL_NEW"]
        response == table_update_item(tbl, params)
        logged == LoggerCall(db_logger)
    IN IF response.res.ok
       THEN IF ~logged.ok
            THEN [res |-> logged, table |-> response.table, sent |-> <<params>>]
            ELSE IF key_after.t # "dict"
            THEN [res |-> Raise("AttributeError", "'str' object has no attribute 'get'"),
                  table |-> response.table, sent |-> <<params>>]
            ELSE [res |-> Ret([success |-> TRUE, data |-> response.res.val.Attributes]),
                  table |-> response.table, sent |-> <<params>>]
       ELSE IF response.res.exc = "ClientError"
       THEN IF ~logged.ok
            THEN [res |-> logged, table |-> tbl, sent |-> <<params>>]
            ELSE [res |-> Ret([success |-> FALSE, error |-> response.res.msg]),
                  table |-> tbl, sent |-> <<params>>]
       ELSE [res |-> response.res, table |-> tbl, sent |-> <<params>>]

\* the result dictionaries of PaymentService
Failure(error_code) == [success |-> FALSE, error_code |-> error_code]
Success(data) == [success |-> TRUE, error_code |-> "", data |-> data]

ValidStatuses == {"pending", "processing", "completed", "failed", "refunded"}

\* truthiness of the metadata argument
Truthy(v) == v.t = "dict"

\* PaymentService.update_payment_status(payment_id, new_status, metadata)
update_payment_status(tbl, payment_id, new_status, metadata, now) ==
    IF new_status \notin ValidStatuses
    THEN [res |-> Failure("INVALID_STATUS"), table |-> tbl, sent |-> <<>>]
    ELSE LET update_data == <<<<"status", new_status>>, <<"updated_at", now>>>>
                            \o (IF Truthy(metadata) THEN <<<<"metadata", metadata>>>>
                                ELSE <<>>)
             result == update_item(tbl, Dict([payment_id |-> payment_id]), update_data)
         IN IF ~result.res.ok
            THEN [res |-> Failure("INTERNAL_ERROR"),
                  table |-> result.table, sent |-> result.sent]
            ELSE IF ~result.res.val.success
            THEN [res |-> Failure("DB_ERROR"),
                  table |-> result.table, sent |-> result.sent]
            ELSE [res |-> Success(result.res.val.data),
                  table |-> result.table, sent |-> result.sent]

\* DynamoDBClient.insert_item(item): outcome, table afterwards and the
\* requests made to the table; the first statement is a call of the logger
insert_item(tbl, item) ==
    LET logged == LoggerCall(db_logger)
        response == table_put_item(tbl, item)
    IN IF ~logged.ok
       THEN [res |-> logged, table |-> tbl, sent |-> <<>>]
       ELSE [res |-> Ret([success |-> TRUE, data |-> item]),
             table |-> response.table, sent |-> <<[Item |-> item]>>]

\* Decimal(str(x)): the number x denotes, or InvalidOperation
DecimalOf(x) ==
    IF x.t = "num" THEN Ret(x.n)
    ELSE Raise("InvalidOperation", "ConversionSyntax")

ValidCurrencies == {Text("USD"), Text("EUR"), Text("MXN")}
ValidMethods == {Text("credit_card"), Text("debit_card"), Text("transfer")}

\* PaymentService._validate_payment_data(payment_data): Ret(None) when the
\* data are valid, otherwise the error message raised to the caller
validate_payment_data(payment_data) ==
    LET amount == DecimalOf(payment_data.amount)
    IN IF payment_data.amount = Missing
       THEN Raise("invalid", "Campo requerido faltante: amount")
       ELSE IF payment_data.currency = Missing
       THEN Raise("invalid", "Campo requerido faltante: currency")
       ELSE IF payment_data.payment_method = Missing
       THEN Raise("invalid", "Campo requerido faltante: payment_method")
       ELSE IF ~amount.ok THEN Raise("invalid", "Monto invalido")
       ELSE IF amount.val <= 0 THEN Raise("invalid", "El monto debe ser mayor a 0")
       ELSE IF payment_data.currency \notin ValidCurrencies
       THEN Raise("invalid", "Moneda invalida")
       ELSE IF payment_data.payment_method \notin ValidMethods
       THEN Raise("invalid", "Metodo de pago invalido")
       ELSE Ret(None)

\* PaymentService._enrich_payment_data(payment_data), with the uuid drawn
enrich_payment_data(payment_data, uuid, now) ==
    [t |-> "item",
     payment_id |-> uuid,
     status |-> "pending",
     created_at |-> now,
     updated_at |-> now,
     amount |-> DecimalOf(payment_data.amount).val,
     currency |-> payment_data.currency,
     payment_method |-> payment_data.payment_method,
     metadata |-> Dict([source |-> IF payment_data.source = Missing
                                     THEN Text("api") ELSE payment_data.source])]

\* PaymentService.register_payment(payment_data)
register_payment(tbl, payment_data, uuid, now) ==
    LET valid == validate_payment_data(payment_data)
        enriched_payment == enrich_payment_data(payment_data, uuid, now)
        result == insert_item(tbl, enriched_payment)
    IN IF ~valid.ok
       THEN [res |-> Failure("INVALID_DATA"), table |-> tbl, sent |-> <<>>]
       ELSE IF ~result.res.ok
       THEN [res |-> Failure("INTERNAL_ERROR"),
             table |-> result.table, sent |-> result.sent]
       ELSE IF ~result.res.val.success
       THEN [res |-> Failure("DB_ERROR"), table |-> result.table, sent |-> result.sent]
       ELSE [res |-> Success([payment_id |-> enriched_payment.payment_id,
                              status |-> enriched_payment.status,
                              amount |-> enriched_payment.amount,
                              currency |-> enriched_payment.currency]),
             table |-> result.table, sent |-> result.sent]

\* await value: the value must be awaitable; a dict is not
Await(value) ==
    IF "awaitable" \in DOMAIN value THEN Ret(value.awaitable)
    ELSE Raise("TypeError", "object dict can't be used in 'await' expression")

\* the response of the register-payment handler
PaymentResponse(status, result) ==
    [statusCode |-> status, headers |-> JsonHeaders, body |-> result]

\* the service was not called
NotCalled == [called |-> FALSE]

\* lambda_handler of payment/register_payment.py, its coroutine run to the
\* end: the response, the table afterwards, the requests made to the table
\* and the result of the service call
payment_lambda_handler(event, tbl, uuid, now) ==
    LET parsed == IF event.body.k = "absent"
                  THEN Ret([j |-> "object",
                            data |-> [amount |-> Missing, currency |-> Missing,
                                      payment_method |-> Missing, payment_id |-> Missing,
                                      status |-> Missing, source |-> Missing]])
                  ELSE IF event.body.k = "null"
                  THEN Raise("TypeError", "the JSON object must be str, bytes or bytearray")
                  ELSE IF event.body.json.j = "invalid"
                  THEN Raise("JSONDecodeError", "Expecting value")
                  ELSE Ret(event.body.json)
        body == [parsed.val.data EXCEPT !.source = Text("api")]
        called == register_payment(tbl, body, uuid, now)
        result == Await(called.res)
        unhandled == PaymentResponse(500, Failure("INTERNAL_ERROR"))
    IN IF ~parsed.ok \/ parsed.val.j # "object"
       THEN [out |-> unhandled, table |-> tbl, sent |-> <<>>, result |-> NotCalled]
       ELSE IF ~result.ok
       THEN [out |-> unhandled, table |-> called.table, sent |-> called.sent,
             result |-> [called |-> TRUE, val |-> called.res]]
       ELSE [out |-> PaymentResponse(
                        IF result.val.error_code = "INTERNAL_ERROR" THEN 500
                        ELSE IF result.val.success THEN 201 ELSE 400,
                        result.val),
             table |-> called.table, sent |-> called.sent,
             result |-> [called |-> TRUE, val |-> called.res]]

\* ----------------------------------------------------------- initial state
NoResp == [op |-> "none"]

\* the instances that serve overlapping invocations
Procs == {1, 2}

\* the local variables of a call before any of them is assigned
NoLocals == [now |-> Utcnow(0, 0), secret |-> Absent, payloads |-> <<>>,
             decoded |-> [sub |-> Absent], token |-> <<>>]

\* an instance that serves no invocation
IdleFrame == [pc |-> "idle", call |-> [op |-> "none"], out |-> NoResp,
              loc |-> NoLocals]

Init ==
    /\ clock = 0
    /\ envSecret = "k1"
    /\ envPath = TRUE
    /\ ssmParam = 60
    /\ wallet = {}
    /\ used = {}
    /\ resp = NoResp
    /\ earlier = NoResp
    /\ frames = [p \in Procs |-> IdleFrame]
    /\ table = EmptyTable
    /\ pay = NoResp

\* ------------------------------------------------------------------ inputs
Jwt(payload, key) == <<[c |-> "jwt", payload |-> payload, sig |-> HS256(payload, key)]>>
OtherType(t) == IF t = "access" THEN "refresh" ELSE "access"

\* what can be made out of a token string t that was handed out
Forgeries(t) ==
    LET p == t[1].payload
        key == t[1].sig.key
    IN {Jwt(p, ForgerKey)}                                          \* signed with another secret
       \cup {<<[t[1] EXCEPT !.payload.type = OtherType(p.type)]>>}  \* payload altered after signing
       \cup {Jwt([p EXCEPT !.sub = Absent], key)}                   \* signed, without subject
       \cup {Jwt([p EXCEPT !.type = Absent], key)}                  \* signed, without type

\* credentials that the handlers did not issue
Forged == UNION {Forgeries(t) : t \in wallet} \cup {<<Word("abc")>>}

Bearer(cred) == <<Word("Bearer"), SP>> \o cred

\* authorization headers that are not "Bearer <credential>"
MalformedHeaders ==
    {NoValue, NullValue, Str(<<>>), Str(<<Word("Bearer")>>), Str(<<Word("Bearer"), SP>>),
     Str(<<Word("Basic"), SP, Word("abc")>>)}
    \cup UNION { { Str(Bearer(t) \o <<SP, Word("extra")>>),
                   Str(<<Word("Bearer"), SP, SP>> \o t),
                   Str(<<Word("bearer"), SP>> \o t),
                   Str(<<SP>> \o Bearer(t)),
                   Str(t) } : t \in {w \in wallet : w[1].payload.type = "access"} }

AuthEvents ==
    {[authorizationToken |-> Str(Bearer(t)), methodArn |-> a] :
        t \in wallet, a \in Arns \cup {Absent}}
    \cup {[authorizationToken |-> Str(Bearer(c)), methodArn |-> "arn:a"] : c \in Forged}
    \cup {[authorizationToken |-> h, methodArn |-> "arn:b"] : h \in MalformedHeaders}
    \cup {[authorizationToken |-> NoValue, methodArn |-> Absent]}

JsonObject(g, u, r) == [k |-> "str", json |-> [j |-> "object", grant_type |-> g,
                                                user_id |-> u, refresh_token |-> r]]

PasswordBodies == {JsonObject("password", u, NoValue) : u \in Users \cup {Absent, ""}}

RefreshBodies ==
    {JsonObject("refresh_token", Absent, r) :
        r \in {NoValue, Str(<<>>)} \cup {Str(c) : c \in wallet \cup Forged}}

OtherBodies ==
    {NoValue, NullValue,
     [k |-> "str", json |-> [j |-> "invalid"]],
     [k |-> "str", json |-> [j |-> "array"]],
     JsonObject(Absent, "u1", NoValue),
     JsonObject("client_credentials", "u1", NoValue)}

\* ----------------------------------------------------------------- actions
\* the instants at which the validity of a held token changes: the second a
\* token expires and the second before it
Expiries == {t[1].payload.exp : t \in wallet}
Instants == Expiries \cup {e - 1 : e \in Expiries}

\* time passes, up to the next such instant or beyond
Tick ==
    /\ resp = NoResp
    /\ \E t \in Instants : t > clock /\ clock' = t
    /\ UNCHANGED <<resp, envSecret, envPath, ssmParam, wallet, used, kept>>

\* the functions are redeployed with another environment, the parameter
\* changes, or the parameter store becomes unreachable or reachable again
Reconfigure ==
    /\ resp = NoResp
    /\ \E c \in Configs :
          /\ c # <<envSecret, envPath, ssmParam>>
          /\ envSecret' = c[1]
          /\ envPath' = c[2]
          /\ ssmParam' = c[3]
    /\ UNCHANGED <<resp, clock, wallet, used, kept>>

\* the body presents a refresh token that a successful refresh was made with
UsedBefore(body) ==
    /\ body.k = "str"
    /\ body.json.j = "object"
    /\ body.json.grant_type = "refresh_token"
    /\ body.json.refresh_token.k = "str"
    /\ body.json.refresh_token.s \in used

\* the tokens in the body of a response of the token handler
TokensOf(out) ==
    IF out.statusCode # 200 THEN {}
    ELSE IF "refresh_token" \in DOMAIN out.body
    THEN {out.body.access_token, out.body.refresh_token}
    ELSE {out.body.access_token}

\* one invocation of the token handler with the given body
TokenInvocation(body) ==
    \E usec \in Usecs :
        LET event == [body |-> body]
            out == token_lambda_handler(event, envSecret, ssmParam, Utcnow(clock, usec))
            refreshed == out.statusCode = 200 /\ body.json.grant_type = "refresh_token"
        IN /\ resp = NoResp
           /\ Cardinality(wallet \cup TokensOf(out)) <= MaxTokens
           /\ resp' = [op |-> "token", event |-> event, out |-> out,
                       reuse |-> UsedBefore(body)]
           /\ wallet' = wallet \cup TokensOf(out)
           /\ used' = IF refreshed THEN used \cup {body.json.refresh_token.s} ELSE used
           /\ UNCHANGED <<clock, envSecret, envPath, ssmParam, kept>>

IssueRequest == \E body \in PasswordBodies : TokenInvocation(body)

RefreshRequest == \E body \in RefreshBodies : TokenInvocation(body)

OtherRequest == \E body \in OtherBodies : TokenInvocation(body)

\* one invocation of the gateway authorizer with the given event
AuthInvocation(event) ==
    /\ resp = NoResp
    /\ resp' = [op |-> "authorize", event |-> event,
                out |-> authorizer_lambda_handler(event, envSecret, envPath, ssmParam, clock)]
    /\ UNCHANGED <<clock, envSecret, envPath, ssmParam, wallet, used>>

Authorize == \E event \in AuthEvents : AuthInvocation(event) /\ UNCHANGED kept

\* the outcome reaches the caller
Respond ==
    /\ resp # NoResp
    /\ resp' = NoResp
    /\ UNCHANGED <<clock, envSecret, envPath, ssmParam, wallet, used, kept>>

Next ==
    \/ Tick
    \/ Reconfigure
    \/ IssueRequest
    \/ RefreshRequest
    \/ OtherRequest
    \/ Authorize
    \/ Respond

Spec == Init /\ [][Next]_vars

\* ------------------------------------------- repeated authorizer invocations

\* the pair a password grant for user_id hands out at instant 0 under "k1"
IssuedPair(user_id) == TokensOf(token_lambda_handler(
    [body |-> JsonObject("password", user_id, NoValue)], "k1", 60, Utcnow(0, 0)))

\* the state after one successful password grant has been answered
InitRepeat ==
    /\ clock = 0
    /\ envSecret = "k1"
    /\ envPath = TRUE
    /\ ssmParam = 60
    /\ wallet \in {IssuedPair(u) : u \in Users}
    /\ used = {}
    /\ resp = NoResp
    /\ earlier = NoResp
    /\ frames = [p \in Procs |-> IdleFrame]
    /\ table = EmptyTable
    /\ pay = NoResp

\* an invocation of the authorizer that is kept for comparison, with the
\* environment and the clock it ran under
AuthorizeFirst ==
    \E event \in AuthEvents :
        /\ AuthInvocation(event)
        /\ earlier' = [event |-> event, out |-> resp'.out, secret |-> envSecret,
                       path |-> envPath, param |-> ssmParam, clock |-> clock]
        /\ UNCHANGED <<frames, table, pay>>

\* a further invocation with the event of the kept one
AuthorizeAgain ==
    /\ earlier # NoResp
    /\ AuthInvocation(earlier.event)
    /\ UNCHANGED <<earlier, frames, table, pay>>

NextRepeat ==
    \/ Tick
    \/ Reconfigure
    \/ AuthorizeFirst
    \/ AuthorizeAgain
    \/ Respond

SpecRepeat == InitRepeat /\ [][NextRepeat]_vars

\* -------------------------------------------- the lifetime of one issuance

\* the refresh tokens handed out by password grants
Issuances == {t \in wallet : t[1].payload.type = "refresh"}

\* the second after each expiry, and the second after the last instant at
\* which a token minted from an issuance can still be valid
LateInstants ==
    {e + 1 : e \in Expiries}
    \cup {r[1].payload.iat + RefreshLifetime + AccessLifetime + 1 : r \in Issuances}

\* time passes, also past the expiry of every token
TickLate ==
    /\ resp = NoResp
    /\ \E t \in Instants \cup LateInstants : t > clock /\ clock' = t
    /\ UNCHANGED <<resp, envSecret, envPath, ssmParam, wallet, used, kept>>

\* after one password grant: refreshes and authorizations over time
NextLifetime ==
    \/ TickLate
    \/ Reconfigure
    \/ RefreshRequest
    \/ Authorize
    \/ Respond

SpecLifetime == InitRepeat /\ [][NextLifetime]_vars

\* ------------------------------------------------- overlapping invocations
\* Each call runs on an instance of its own, one slice of code at a time;
\* a slice ends at a read of the environment or of the clock.

\* the calls made: generate_tokens(user_id), refresh_access_token(token) and
\* the authorizer's lambda_handler(event)
Calls ==
    {[op |-> "issue", user_id |-> u] : u \in Users}
    \cup {[op |-> "refresh", refresh_token |-> t] : t \in wallet}
    \cup {[op |-> "authorize",
           event |-> [authorizationToken |-> Str(Bearer(t)), methodArn |-> "arn:a"]] :
              t \in wallet}

\* the first slice of each function
Entry(call) ==
    CASE call.op = "issue" -> "gen_now"
      [] call.op = "refresh" -> "ref_secret"
      [] call.op = "authorize" -> "auth_secret"

\* the locals kept in one place for all instances, as module-level globals
Local_shared(self) == 1

\* where the locals of the call served by instance self live: in its own frame
Local(self) == self

Loc(self) == frames[Local(self)].loc

\* instance self assigns locals and moves on to slice pc
Goto(self, pc, loc) ==
    /\ frames' = [frames EXCEPT ![Local(self)].loc = loc, ![self].pc = pc]
    /\ UNCHANGED <<clock, envSecret, envPath, ssmParam, wallet, used, resp, earlier,
                   table, pay>>

\* the call served by instance self ends with out
Finish(self, out) ==
    /\ frames' = [frames EXCEPT ![self].pc = "done", ![self].out = out]
    /\ UNCHANGED <<clock, envSecret, envPath, ssmParam, wallet, used, resp, earlier,
                   table, pay>>

\* an invocation arrives at an instance that serves none
Start(self) ==
    /\ frames[self].pc = "idle"
    /\ \E call \in Calls :
          frames' = [frames EXCEPT ![self] =
                        [pc |-> Entry(call), call |-> call, out |-> NoResp,
                         loc |-> NoLocals]]
    /\ UNCHANGED <<clock, envSecret, envPath, ssmParam, wallet, used, resp, earlier,
                   table, pay>>

\* the outcome reaches the caller and the instance is free again
Return(self) ==
    /\ frames[self].pc = "done"
    /\ frames' = [frames EXCEPT ![self] = IdleFrame]
    /\ UNCHANGED <<clock, envSecret, envPath, ssmParam, wallet, used, resp, earlier,
                   table, pay>>

\* generate_tokens, line 13: now = datetime.utcnow()
gen_now(self) ==
    /\ frames[self].pc = "gen_now"
    /\ \E usec \in Usecs :
          Goto(self, "gen_payloads", [Loc(self) EXCEPT !.now = Utcnow(clock, usec)])

\* generate_tokens, lines 16-31: the two payloads
gen_payloads(self) ==
    /\ frames[self].pc = "gen_payloads"
    /\ LET user_id == frames[self].call.user_id
           now == Loc(self).now
           access_payload == [sub |-> user_id, iat |-> now,
                              exp |-> PlusSeconds(now, AccessLifetime),
                              iss |-> Issuer, type |-> "access"]
           refresh_payload == [sub |-> user_id, iat |-> now,
                               exp |-> PlusSeconds(now, RefreshLifetime),
                               iss |-> Issuer, type |-> "refresh"]
       IN Goto(self, "gen_secret",
               [Loc(self) EXCEPT !.payloads = <<access_payload, refresh_payload>>])

\* generate_tokens, line 33: secret = os.environ.get('AUTH_TOKEN_SECRET')
gen_secret(self) ==
    /\ frames[self].pc = "gen_secret"
    /\ Goto(self, "gen_encode", [Loc(self) EXCEPT !.secret = envSecret])

\* generate_tokens, lines 36-42: both tokens are signed and returned
gen_encode(self) ==
    /\ frames[self].pc = "gen_encode"
    /\ LET access_token == jwt_encode(Loc(self).payloads[1], Loc(self).secret)
           refresh_token == jwt_encode(Loc(self).payloads[2], Loc(self).secret)
       IN Finish(self, IF ~access_token.ok THEN access_token
                       ELSE IF ~refresh_token.ok THEN refresh_token
                       ELSE Ret([access_token |-> access_token.val,
                                 refresh_token |-> refresh_token.val]))

\* refresh_access_token, line 48: secret = os.environ.get('AUTH_TOKEN_SECRET')
ref_secret(self) ==
    /\ frames[self].pc = "ref_secret"
    /\ Goto(self, "ref_decode", [Loc(self) EXCEPT !.secret = envSecret])

\* refresh_access_token, lines 51-55 and 71-74: the token is decoded at the
\* present second and its type tested
ref_decode(self) ==
    /\ frames[self].pc = "ref_decode"
    /\ LET decoded == jwt_decode(frames[self].call.refresh_token, Loc(self).secret, clock)
       IN IF ~decoded.ok
          THEN Finish(self, IF decoded.exc = "ExpiredSignatureError"
                            THEN Raise("ValueError", "Refresh token expirado")
                            ELSE IF decoded.exc \in InvalidTokenErrors
                            THEN Raise("ValueError", "Refresh token invalido")
                            ELSE decoded)
          ELSE IF decoded.val.type # "refresh"
          THEN Finish(self, Raise("ValueError", "Token tipo invalido"))
          ELSE Goto(self, "ref_now", [Loc(self) EXCEPT !.decoded = decoded.val])

\* refresh_access_token, lines 58-66: user_id, now and the new payload
ref_now(self) ==
    /\ frames[self].pc = "ref_now"
    /\ IF Loc(self).decoded.sub = Absent
       THEN Finish(self, Raise("KeyError", "sub"))
       ELSE \E usec \in Usecs :
              LET now == Utcnow(clock, usec)
                  access_payload == [sub |-> Loc(self).decoded.sub, iat |-> now,
                                     exp |-> PlusSeconds(now, AccessLifetime),
                                     iss |-> Issuer, type |-> "access"]
              IN Goto(self, "ref_encode",
                      [Loc(self) EXCEPT !.now = now, !.payloads = <<access_payload>>])

\* refresh_access_token, lines 68-69: the new token is signed and returned
ref_encode(self) ==
    /\ frames[self].pc = "ref_encode"
    /\ LET new_access_token == jwt_encode(Loc(self).payloads[1], Loc(self).secret)
       IN Finish(self, IF ~new_access_token.ok THEN new_access_token
                       ELSE Ret([access_token |-> new_access_token.val]))

\* the except clause of the authorizer (lines 53-59)
AuthorizerExcept(event) ==
    IF event.methodArn = Absent THEN Raise("KeyError", "methodArn")
    ELSE Ret(generate_policy("user", "Deny", event.methodArn))

\* authorizer, lines 31-38: the header is taken apart and the secret read
auth_secret(self) ==
    /\ frames[self].pc = "auth_secret"
    /\ LET event == frames[self].call.event
           hdr == event.authorizationToken
           auth_header == IF hdr.k = "absent" THEN <<>> ELSE hdr.s
       IN IF hdr.k = "null" \/ ~StartsWithBearer(auth_header)
          THEN Finish(self, AuthorizerExcept(event))
          ELSE Goto(self, "auth_param",
                    [Loc(self) EXCEPT !.token = Split(auth_header)[2],
                                      !.secret = envSecret])

\* authorizer, line 39: the token-time parameter is looked up
auth_param(self) ==
    /\ frames[self].pc = "auth_param"
    /\ IF ~envPath \/ ~get_parameter(ssmParam).ok
       THEN Finish(self, AuthorizerExcept(frames[self].call.event))
       ELSE Goto(self, "auth_decode", Loc(self))

\* authorizer, lines 40-59: the token is decoded at the present second and
\* the policy returned
auth_decode(self) ==
    /\ frames[self].pc = "auth_decode"
    /\ LET event == frames[self].call.event
           decoded == jwt_decode(Loc(self).token, Loc(self).secret, clock)
       IN Finish(self,
                 IF ~decoded.ok \/ decoded.val.type # "access" \/ decoded.val.sub = Absent
                 THEN AuthorizerExcept(event)
                 ELSE IF event.methodArn = Absent THEN Raise("KeyError", "methodArn")
                 ELSE Ret(generate_policy(decoded.val.sub, "Allow", event.methodArn)))

\* no call is in progress
Quiet == \A p \in Procs : frames[p].pc = "idle"

\* the clock and the environment change between the calls: each call runs
\* under one clock value and one configuration
TickQuiet == Quiet /\ Tick

ReconfigureQuiet == Quiet /\ Reconfigure

NextOverlap ==
    \/ TickQuiet
    \/ ReconfigureQuiet
    \/ \E self \in Procs :
          \/ Start(self)
          \/ gen_now(self) \/ gen_payloads(self) \/ gen_secret(self) \/ gen_encode(self)
          \/ ref_secret(self) \/ ref_decode(self) \/ ref_now(self) \/ ref_encode(self)
          \/ auth_secret(self) \/ auth_param(self) \/ auth_decode(self)
          \/ Return(self)

SpecOverlap == InitRepeat /\ [][NextOverlap]_vars

\* ------------------------------------------------------ the payment service

\* a table that holds some payments already
Tables ==
    {[id \in PaymentIds |->
        IF id \in StoredIds /\ f[id] # ""
        THEN Item(id, f[id], "t0", None) ELSE NoItem] :
            f \in [StoredIds -> {"", "pending", "completed"}]}

InitPayments ==
    /\ clock = 0
    /\ envSecret = "k1"
    /\ envPath = TRUE
    /\ ssmParam = 60
    /\ wallet = {}
    /\ used = {}
    /\ resp = NoResp
    /\ earlier = NoResp
    /\ frames = [p \in Procs |-> IdleFrame]
    /\ table \in Tables
    /\ pay = NoResp

\* datetime.utcnow().isoformat() at the time of the calls
NowIso == "t1"

\* the new_status and metadata arguments tried
StatusArgs == ValidStatuses \cup {"cancelled", ""}
MetadataArgs == {None, Dict([note |-> "x"])}

\* one call of PaymentService.update_payment_status
UpdateStatus ==
    /\ pay = NoResp
    /\ \E id \in PaymentIds, s \in StatusArgs, m \in MetadataArgs :
          LET r == update_payment_status(table, id, s, m, NowIso)
          IN /\ pay' = [op |-> "update", payment_id |-> id, new_status |-> s,
                        metadata |-> m, out |-> r.res, sent |-> r.sent,
                        before |-> table]
             /\ table' = r.table
    /\ UNCHANGED <<clock, envSecret, envPath, ssmParam, wallet, used, resp, earlier,
                   frames>>

\* the payment data tried: each required field missing, invalid or valid,
\* with or without a payment_id and status of the caller's
PaymentData ==
    {[amount |-> am, currency |-> cu, payment_method |-> pm,
      payment_id |-> own[1], status |-> own[2], source |-> Text("api")] :
        am \in {Missing, None, Num(0), Num(-5), Num(10), Text("abc")},
        cu \in {Missing, Text("USD"), Text("GBP")},
        pm \in {Missing, Text("credit_card"), Text("cash")},
        own \in {<<Missing, Missing>>, <<Text("p1"), Text("completed")>>}}

\* one call of PaymentService.register_payment
RegisterPayment ==
    /\ pay = NoResp
    /\ \E d \in PaymentData, uuid \in FreshIds :
          LET r == register_payment(table, d, uuid, NowIso)
          IN /\ pay' = [op |-> "register", data |-> d, out |-> r.res,
                        sent |-> r.sent, before |-> table]
             /\ table' = r.table
    /\ UNCHANGED <<clock, envSecret, envPath, ssmParam, wallet, used, resp, earlier,
                   frames>>

\* the bodies of the events tried: no body, null, not JSON, a JSON array,
\* and the payment data as a JSON object
PaymentBodies ==
    {NoValue, NullValue,
     [k |-> "str", json |-> [j |-> "invalid"]],
     [k |-> "str", json |-> [j |-> "array"]]}
    \cup {[k |-> "str", json |-> [j |-> "object", data |-> d]] : d \in PaymentData}

\* one invocation of the register-payment handler
RegisterRequest ==
    /\ pay = NoResp
    /\ \E body \in PaymentBodies, uuid \in FreshIds :
          LET r == payment_lambda_handler([body |-> body], table, uuid, NowIso)
          IN /\ pay' = [op |-> "handler", event |-> [body |-> body], out |-> r.out,
                        result |-> r.result, sent |-> r.sent, before |-> table]
             /\ table' = r.table
    /\ UNCHANGED <<clock, envSecret, envPath, ssmParam, wallet, used, resp, earlier,
                   frames>>

\* the outcome of the payment call reaches the caller
PayRespond ==
    /\ pay # NoResp
    /\ pay' = NoResp
    /\ UNCHANGED <<clock, envSecret, envPath, ssmParam, wallet, used, resp, earlier,
                   frames, table>>

NextPayments ==
    \/ UpdateStatus
    \/ RegisterPayment
    \/ RegisterRequest
    \/ PayRespond

SpecPayments == InitPayments /\ [][NextPayments]_vars

\* ------------------------------------------------- reading an invocation
IsAuth == resp.op = "authorize"
IsTokenCall == resp.op = "token"
Effect == resp.out.val.policyDocument.Statement[1].Effect
Allowed == IsAuth /\ resp.out.ok /\ Effect = "Allow"
Denied == IsAuth /\ resp.out.ok /\ Effect = "Deny"

\* the JWTs that occur in the authorization header of the event
HeaderJwts ==
    IF resp.event.authorizationToken.k # "str" THEN {}
    ELSE LET h == resp.event.authorizationToken.s
         IN {h[i] : i \in {n \in 1..Len(h) : h[n].c = "jwt"}}

\* the lookups of the authorizer succeed / those of the token handler succeed
AuthorizerConfigOk == envSecret # Absent /\ envPath /\ ssmParam # ParamDown
TokenConfigOk == envSecret # Absent /\ ssmParam # ParamDown

\* token string t is signed with the secret in use and not expired
SignedNow(t) == t[1].sig = HS256(t[1].payload, envSecret) /\ envSecret # Absent
Unexpired(t) == clock < t[1].payload.exp

IsGrant(g) ==
    /\ IsTokenCall
    /\ resp.event.body.k = "str"
    /\ resp.event.body.json.j = "object"
    /\ resp.event.body.json.grant_type = g
Status == resp.out.statusCode
UserId == resp.event.body.json.user_id
Presented == resp.event.body.json.refresh_token

\* ------------------------------------------------------------------ claims

\* C1: every invocation of the authorizer ends with a returned, well-formed
\* policy whose effect is Allow or Deny; no exception escapes, whatever the
\* event has or lacks and whatever the configuration.
C1_NeverRaises ==
    IsAuth =>
        /\ resp.out.ok
        /\ Effect \in {"Allow", "Deny"}
        /\ Len(resp.out.val.policyDocument.Statement) = 1

\* C2: a header "Bearer <t>", t an access token handed out by the token
\* handler, signed with the secret in use and presented before its expiry
\* while the lookups succeed, is answered Allow with principalId = t's
\* subject and Resource = the event's methodArn.
C2_ValidAccessAllowed ==
    \A t \in wallet :
        ( /\ IsAuth
          /\ resp.event.authorizationToken = Str(Bearer(t))
          /\ resp.event.methodArn # Absent
          /\ t[1].payload.type = "access"
          /\ SignedNow(t) /\ Unexpired(t)
          /\ AuthorizerConfigOk )
        => /\ Allowed
           /\ resp.out.val.principalId = t[1].payload.sub
           /\ resp.out.val.policyDocument.Statement[1].Resource = resp.event.methodArn

\* C2 witness: a token minted by a refresh is allowed for the second user
C2_Witness ==
    /\ Allowed
    /\ clock > 0
    /\ resp.out.val.principalId = "u2"
    /\ resp.out.val.policyDocument.Statement[1].Resource = "arn:b"
    /\ \E t \in wallet : /\ resp.event.authorizationToken = Str(Bearer(t))
                         /\ t[1].payload.iat > 0

\* C3: token types are not interchangeable: no Allow is produced from a
\* header whose token is not access-typed, a refresh-typed token is never
\* allowed, and no refresh succeeds (or returns a token) from a token that
\* is not refresh-typed.
C3_TypesNotInterchangeable ==
    /\ Allowed => /\ HeaderJwts # {}
                  /\ \A j \in HeaderJwts : j.payload.type = "access"
    /\ (IsAuth /\ \E j \in HeaderJwts : j.payload.type = "refresh") => ~Allowed
    /\ (IsGrant("refresh_token") /\ Status = 200) =>
           /\ Len(Presented.s) = 1
           /\ Presented.s[1].c = "jwt"
           /\ Presented.s[1].payload.type = "refresh"
    /\ ( /\ IsGrant("refresh_token")
         /\ Presented.k = "str"
         /\ Presented.s \in wallet
         /\ Presented.s[1].payload.type = "access" )
       => /\ Status # 200
          /\ DOMAIN resp.out.body = {"error"}
          /\ (TokenConfigOk /\ SignedNow(Presented.s) /\ Unexpired(Presented.s))
                => /\ Status = 401
                   /\ resp.out.body.error = "Token tipo invalido"

\* C3 witness: a correctly signed, unexpired access token is refused by the
\* refresh flow while the lookups succeed
C3_Witness ==
    /\ IsGrant("refresh_token")
    /\ Presented.k = "str"
    /\ Presented.s \in wallet
    /\ Presented.s[1].payload.type = "access"
    /\ SignedNow(Presented.s) /\ Unexpired(Presented.s)
    /\ TokenConfigOk
    /\ Status = 401

\* C4: once the clock is past a token's expires_at the authorizer does not
\* allow it and the refresh flow does not accept it, and answers a correctly
\* signed refresh-typed one as expired; the clock never goes back, so a token
\* refused for expiry is not accepted again.
C4_ExpiryState ==
    /\ (IsAuth /\ \E j \in HeaderJwts : j.payload.exp < clock) => ~Allowed
    /\ ( /\ IsAuth
         /\ resp.event.methodArn # Absent
         /\ \E j \in HeaderJwts : j.payload.exp < clock ) => Denied
    /\ ( /\ IsGrant("refresh_token")
         /\ Presented.k = "str"
         /\ Len(Presented.s) = 1
         /\ Presented.s[1].c = "jwt"
         /\ Presented.s[1].payload.exp < clock )
       => /\ Status # 200
          /\ ( /\ TokenConfigOk
               /\ SignedNow(Presented.s)
               /\ Presented.s[1].payload.type = "refresh" )
             => /\ Status = 401
                /\ resp.out.body = [error |-> "Refresh token expirado"]

C4_ExpiryEnforced == [][clock' >= clock /\ C4_ExpiryState']_vars

\* C4 witness: a wallet access token with a valid signature, presented in a
\* well-formed header while the lookups succeed, is denied after its expiry
C4_Witness ==
    /\ Denied
    /\ AuthorizerConfigOk
    /\ \E t \in wallet : /\ resp.event.authorizationToken = Str(Bearer(t))
                         /\ t[1].payload.type = "access"
                         /\ SignedNow(t)
                         /\ t[1].payload.exp < clock

\* the header is exactly "Bearer <credential>": one scheme, one space, one
\* credential without spaces
ExactBearer(v) ==
    /\ v.k = "str"
    /\ Len(v.s) = 3
    /\ v.s[1] = Word("Bearer")
    /\ v.s[2].c = "sp"
    /\ v.s[3].c # "sp"

\* C5: every authorization header that is not exactly "Bearer <token>"
\* (other scheme, empty, missing, no credential, further segments after the
\* credential) is answered Deny.
C5_OnlyExactBearer ==
    ( /\ IsAuth
      /\ resp.event.methodArn # Absent
      /\ ~ExactBearer(resp.event.authorizationToken) ) => Denied

\* the claims a token string decodes to under the secret in use, now
Decoded(t) == jwt_decode(t, envSecret, clock)

\* C6: a successful password grant for subject s returns an access and a
\* refresh token with the same subject s, issued_at and issuer, typed access
\* with expires_at - issued_at = 1 hour and refresh with expires_at -
\* issued_at = 7 days, whatever the token-lifetime parameter holds; every
\* token handed out has expires_at > issued_at.
C6_IssuedPair ==
    /\ (IsGrant("password") /\ Status = 200) =>
         LET a == Decoded(resp.out.body.access_token)
             r == Decoded(resp.out.body.refresh_token)
         IN /\ a.ok /\ r.ok
            /\ UserId \notin {Absent, ""}
            /\ a.val.sub = UserId /\ r.val.sub = UserId
            /\ a.val.iat = clock /\ r.val.iat = clock
            /\ a.val.iss = "lambda-api" /\ r.val.iss = "lambda-api"
            /\ a.val.type = "access" /\ r.val.type = "refresh"
            /\ a.val.exp - a.val.iat = 3600
            /\ r.val.exp - r.val.iat = 7 * 24 * 3600
    /\ \A t \in wallet : t[1].payload.exp > t[1].payload.iat

\* C6 witness: a pair is issued while the parameter holds 7200
C6_Witness ==
    /\ IsGrant("password")
    /\ Status = 200
    /\ ssmParam = 7200
    /\ UserId = "u2"

\* the presented refresh token is a JWT signed with the secret in use,
\* unexpired and refresh-typed
ValidRefresh(v) ==
    /\ v.k = "str"
    /\ Len(v.s) = 1
    /\ v.s[1].c = "jwt"
    /\ SignedNow(v.s)
    /\ Unexpired(v.s)
    /\ v.s[1].payload.type = "refresh"

\* C7: a refresh with a correctly signed, unexpired, refresh-typed token for
\* subject s returns a new access token with subject s, type access,
\* issued_at = the time of the refresh call and expires_at = issued_at + 1 hour.
C7_RefreshedAccess ==
    IsGrant("refresh_token") =>
        /\ ( /\ ValidRefresh(Presented)
             /\ Presented.s[1].payload.sub # Absent
             /\ TokenConfigOk ) => Status = 200
        /\ Status = 200 =>
             LET a == Decoded(resp.out.body.access_token)
             IN /\ a.ok
                /\ a.val.sub = Presented.s[1].payload.sub
                /\ a.val.type = "access"
                /\ a.val.iat = clock
                /\ a.val.exp = clock + 3600

\* C7 witness: a refresh succeeds later than the refresh token was issued
C7_Witness ==
    /\ IsGrant("refresh_token")
    /\ Status = 200
    /\ Presented.s[1].payload.iat < clock
    /\ Presented.s[1].payload.sub = "u1"

\* C8: a refresh response never contains a refresh token, and a refresh token
\* that was already used for a successful refresh is accepted again as long
\* as it is unexpired.
C8_NoRotation ==
    IsGrant("refresh_token") =>
        /\ "refresh_token" \notin DOMAIN resp.out.body
        /\ ( /\ resp.reuse
             /\ ValidRefresh(Presented)
             /\ TokenConfigOk ) => /\ Status = 200
                                   /\ "access_token" \in DOMAIN resp.out.body

\* C8 witness: a refresh token used before is accepted again at a later time
C8_Witness ==
    /\ IsGrant("refresh_token")
    /\ resp.reuse
    /\ Status = 200
    /\ clock > 0
    /\ Presented.s \in wallet

\* C9: a password grant without user_id or with an empty one is answered 400
\* with an error body and no token; with a non-empty user_id it is answered
\* 200 with access_token, refresh_token, expires_in = 3600 and token_type =
\* "Bearer"; 500 is returned only when a lookup or the signing fails.
C9_PasswordGrant ==
    IsGrant("password") =>
        /\ Status \in {200, 400, 500}
        /\ (ssmParam # ParamDown /\ UserId \in {Absent, ""}) =>
              /\ Status = 400
              /\ DOMAIN resp.out.body = {"error"}
        /\ (TokenConfigOk /\ UserId \notin {Absent, ""}) =>
              /\ Status = 200
              /\ DOMAIN resp.out.body =
                    {"access_token", "refresh_token", "expires_in", "token_type"}
              /\ resp.out.body.expires_in = 3600
              /\ resp.out.body.token_type = "Bearer"
        /\ Status = 500 => ~TokenConfigOk
        /\ Status # 200 => DOMAIN resp.out.body = {"error"}

\* C9 witness: an empty user_id is answered 400
C9_Witness ==
    /\ IsGrant("password")
    /\ UserId = ""
    /\ Status = 400

\* C10: while the lookups succeed, a refresh grant is answered 400 when the
\* refresh_token field is absent or empty, 401 when the token is invalid,
\* expired or of the wrong type, and 200 with exactly access_token,
\* expires_in = 3600 and token_type = "Bearer" when it is a valid refresh token.
C10_RefreshGrant ==
    (IsGrant("refresh_token") /\ TokenConfigOk) =>
        /\ Falsy(Presented) => Status = 400
        /\ (~Falsy(Presented) /\ ~ValidRefresh(Presented)) => Status = 401
        /\ (~Falsy(Presented) /\ ValidRefresh(Presented)) =>
              /\ Status \in {200, 401}
              /\ Status = 200 =>
                    /\ DOMAIN resp.out.body = {"access_token", "expires_in", "token_type"}
                    /\ resp.out.body.expires_in = 3600
                    /\ resp.out.body.token_type = "Bearer"

\* the invocation being answered repeats the kept one: same header, same
\* methodArn
Repeats == IsAuth /\ earlier # NoResp /\ resp.event = earlier.event

\* the header carries a token, and it was within its validity window at the
\* kept invocation and is within it now
InWindowBoth ==
    /\ HeaderJwts # {}
    /\ \A j \in HeaderJwts : earlier.clock < j.payload.exp /\ clock < j.payload.exp

\* the environment of the kept invocation is the one in force now: same
\* secret, same path setting, the parameter lookup succeeds or fails alike
SameEnvironment ==
    /\ earlier.secret = envSecret
    /\ earlier.path = envPath
    /\ (earlier.param = ParamDown) = (ssmParam = ParamDown)

\* C11 as stated: two invocations with the same header and methodArn, the
\* token within its validity window at both, have the same outcome (effect,
\* principal and resource).
C11_Idempotent == (Repeats /\ InWindowBoth) => resp.out = earlier.out

\* C11 amended: two invocations with the same header and methodArn, the
\* token within its validity window at both and the environment (secret,
\* path setting, success of the parameter lookup) the same at both, have
\* the same outcome (effect, principal and resource).
C11_IdempotentSameEnv ==
    (Repeats /\ InWindowBoth /\ SameEnvironment) => resp.out = earlier.out

\* C11 witness: a token allowed at instant 0 is allowed again with the same
\* principal and resource in the last second of its validity
C11_Witness ==
    /\ Repeats /\ InWindowBoth /\ SameEnvironment
    /\ Allowed
    /\ resp.out = earlier.out
    /\ earlier.clock = 0
    /\ clock = AccessLifetime - 1

\* the lookups of the kept invocation failed: secret unset, path setting
\* absent or parameter lookup failing
EarlierConfigFailed ==
    earlier.secret = Absent \/ ~earlier.path \/ earlier.param = ParamDown

\* the header of the invocation being answered is "Bearer <t>" for a
\* handed-out access token t that is signed with the secret in use and
\* unexpired
ValidAccessHeader ==
    \E t \in wallet : /\ resp.event.authorizationToken = Str(Bearer(t))
                       /\ t[1].payload.type = "access"
                       /\ SignedNow(t) /\ Unexpired(t)

\* C13: an invocation of the authorizer made while the secret is unset, the
\* path setting absent or the parameter lookup failing is answered Deny,
\* whatever the token; and when the same still-valid token is presented
\* again after the lookups succeed again, it is answered Allow although the
\* earlier invocation was denied.
C13_FailClosedNotSticky ==
    /\ (IsAuth /\ resp.event.methodArn # Absent /\ ~AuthorizerConfigOk) => Denied
    /\ ( /\ Repeats
         /\ resp.event.methodArn # Absent
         /\ EarlierConfigFailed
         /\ AuthorizerConfigOk
         /\ ValidAccessHeader )
       => /\ earlier.out.ok
          /\ earlier.out.val.policyDocument.Statement[1].Effect = "Deny"
          /\ Allowed

\* C13 witness: the token denied while the parameter lookup failed is
\* allowed once the lookup succeeds again
C13_Witness ==
    /\ Repeats
    /\ earlier.param = ParamDown /\ earlier.secret = "k1" /\ earlier.path
    /\ earlier.out.ok
    /\ earlier.out.val.policyDocument.Statement[1].Effect = "Deny"
    /\ AuthorizerConfigOk
    /\ ValidAccessHeader
    /\ Allowed

\* JWT j does not carry the signature of its payload under the secret in use
NotSignedNow(j) == j.sig # HS256(j.payload, envSecret)

\* the refresh grant being answered presents a single JWT
PresentsJwt ==
    /\ IsGrant("refresh_token")
    /\ Presented.k = "str"
    /\ Len(Presented.s) = 1
    /\ Presented.s[1].c = "jwt"

\* C14: a token that does not carry the signature of its payload under the
\* secret in use (signed with another secret, or altered after signing) is
\* never accepted, whatever its claims: the authorizer does not allow it and
\* denies it, and the refresh flow returns no token for it and answers 401
\* "Refresh token invalido" while its lookups succeed.
C14_ForgedNeverAccepted ==
    /\ (IsAuth /\ \E j \in HeaderJwts : NotSignedNow(j)) =>
           /\ ~Allowed
           /\ resp.event.methodArn # Absent => Denied
    /\ (PresentsJwt /\ NotSignedNow(Presented.s[1])) =>
           /\ Status # 200
           /\ DOMAIN resp.out.body = {"error"}
           /\ TokenConfigOk => /\ Status = 401
                               /\ resp.out.body.error = "Refresh token invalido"

\* C14 witness: an unexpired token whose payload was altered to type refresh
\* after signing with the secret in use is refused by the refresh flow
C14_Witness ==
    /\ PresentsJwt
    /\ TokenConfigOk
    /\ Presented.s[1].sig.key = envSecret
    /\ Presented.s[1].sig.msg # Presented.s[1].payload
    /\ Presented.s[1].payload.type = "refresh"
    /\ Unexpired(Presented.s)
    /\ Status = 401

\* the body of the response being returned carries a token
CarriesToken ==
    DOMAIN resp.out.body \cap {"access_token", "refresh_token"} # {}

\* C15: the token handler answers every event (missing body, null body, body
\* that is not JSON or not a JSON object, unknown grant_type, failing
\* lookups) with a response whose statusCode is 200, 400, 401 or 500; its
\* internal errors (null body, invalid JSON, non-object JSON, failing
\* lookup) are answered 500, a missing body or unknown grant_type 400, and
\* only a 200 response carries a token.
C15_TokenHandlerResponds ==
    IsTokenCall =>
        /\ Status \in {200, 400, 401, 500}
        /\ CarriesToken => Status = 200
        /\ Status # 200 => DOMAIN resp.out.body = {"error"}
        /\ Status = 200 => "access_token" \in DOMAIN resp.out.body
        /\ ssmParam = ParamDown => Status = 500
        /\ resp.event.body.k = "null" => Status = 500
        /\ (resp.event.body.k = "str" /\ resp.event.body.json.j # "object")
              => Status = 500
        /\ (ssmParam # ParamDown /\ resp.event.body.k = "absent") => Status = 400
        /\ ( /\ ssmParam # ParamDown
             /\ resp.event.body.k = "str"
             /\ resp.event.body.json.j = "object"
             /\ resp.event.body.json.grant_type \notin {"password", "refresh_token"} )
           => /\ Status = 400
              /\ resp.out.body.error = "grant_type invalido"

\* C15 witness: a null body is answered 500 while the lookups succeed
C15_Witness ==
    /\ IsTokenCall
    /\ TokenConfigOk
    /\ resp.event.body.k = "null"
    /\ Status = 500
    /\ ~CarriesToken

\* C16: every policy the authorizer returns has one statement with Action
\* execute-api:Invoke and Resource = the event's methodArn; when the effect
\* is Allow the principalId is the subject of the token in the header, and
\* when it is Deny the principalId is "user", whatever made it fail.
C16_PolicyShape ==
    (IsAuth /\ resp.out.ok) =>
        LET st == resp.out.val.policyDocument.Statement[1]
        IN /\ Len(resp.out.val.policyDocument.Statement) = 1
           /\ st.Action = "execute-api:Invoke"
           /\ st.Resource = resp.event.methodArn
           /\ st.Effect \in {"Allow", "Deny"}
           /\ st.Effect = "Allow" =>
                 /\ resp.out.val.principalId \in Users
                 /\ \A j \in HeaderJwts : resp.out.val.principalId = j.payload.sub
                 /\ HeaderJwts # {}
           /\ st.Effect = "Deny" => resp.out.val.principalId = "user"

\* C16 witness: an access token signed with the secret in use but without a
\* subject is denied with principalId "user" while the lookups succeed
C16_Witness ==
    /\ Denied
    /\ AuthorizerConfigOk
    /\ resp.out.val.principalId = "user"
    /\ resp.out.val.policyDocument.Statement[1].Resource = resp.event.methodArn
    /\ \E j \in HeaderJwts : /\ ~NotSignedNow(j)
                              /\ j.payload.sub = Absent
                              /\ j.payload.type = "access"
                              /\ clock < j.payload.exp

\* C17: a refresh grant whose token is signed with the secret in use,
\* unexpired and refresh-typed but has no subject claim is answered 401
\* with an error body and no access token, while the lookups succeed.
C17_MissingSubRejected ==
    ( /\ PresentsJwt
      /\ TokenConfigOk
      /\ ~NotSignedNow(Presented.s[1])
      /\ Unexpired(Presented.s)
      /\ Presented.s[1].payload.type = "refresh"
      /\ Presented.s[1].payload.sub = Absent )
    => /\ Status = 401
       /\ DOMAIN resp.out.body = {"error"}

\* the subject written into a token string
SubOf(t) == t[1].payload.sub

C19_ConfigDown500 ==
    (IsTokenCall /\ ~TokenConfigOk) => (Status = 500 /\ ~CarriesToken)

\* the JSON object of the request being answered
Body == resp.event.body.json

\* C19 amended: while the parameter lookup fails, every request is answered
\* 500 without a token, whatever its body; while only the secret is unset no
\* token is returned either, a password grant with a user_id and a refresh
\* grant presenting a JWT are answered 500, and requests with a missing
\* user_id, a missing refresh_token or an unknown grant_type are answered
\* 400 and a refresh token that is not a JWT 401, as with the secret set.
C19_ConfigDownAmended ==
    IsTokenCall =>
        /\ ~TokenConfigOk => (Status # 200 /\ ~CarriesToken)
        /\ ssmParam = ParamDown => Status = 500
        /\ (envSecret = Absent /\ ssmParam # ParamDown) =>
              /\ (IsGrant("password") /\ UserId \notin {Absent, ""}) => Status = 500
              /\ PresentsJwt => Status = 500
              /\ (IsGrant("password") /\ UserId \in {Absent, ""}) => Status = 400
              /\ (IsGrant("refresh_token") /\ Falsy(Presented)) => Status = 400
              /\ ( /\ IsGrant("refresh_token")
                   /\ ~Falsy(Presented)
                   /\ ~PresentsJwt ) => Status = 401
              /\ ( /\ resp.event.body.k = "str"
                   /\ Body.j = "object"
                   /\ Body.grant_type \notin {"password", "refresh_token"} )
                 => Status = 400

\* C19 witness: a password grant without user_id, answered 400 otherwise, is
\* answered 500 while the parameter lookup fails and the secret is set
C19_Witness ==
    /\ IsGrant("password")
    /\ UserId = Absent
    /\ ssmParam = ParamDown
    /\ envSecret # Absent
    /\ Status = 500
    /\ ~CarriesToken

\* the last instant before which a credential deriving from issuance r can
\* be valid: 7 days and 1 hour after the grant
Bound(r) == r[1].payload.iat + RefreshLifetime + AccessLifetime

\* C20: for the issuance r of a password grant at time t: a refresh with r
\* made after t + 7 days does not succeed; the authorizer allows nothing at
\* or after t + 7 days + 1 hour, and every access token handed out expires
\* within that bound; and an access token minted in the last second of r's
\* validity is allowed after r has expired, until its own expiry.
C20_BoundedLifetime ==
    \A r \in Issuances :
        /\ ( /\ IsGrant("refresh_token")
             /\ Presented = Str(r)
             /\ clock > r[1].payload.iat + RefreshLifetime )
           => (Status # 200 /\ ~CarriesToken)
        /\ \A a \in wallet \ Issuances : a[1].payload.exp < Bound(r)
        /\ (IsAuth /\ clock >= Bound(r)) => ~Allowed
        /\ \A a \in wallet \ Issuances :
              ( /\ IsAuth
                /\ resp.event.authorizationToken = Str(Bearer(a))
                /\ resp.event.methodArn # Absent
                /\ a[1].payload.iat = r[1].payload.exp - 1
                /\ clock >= r[1].payload.exp
                /\ SignedNow(a) /\ Unexpired(a)
                /\ AuthorizerConfigOk )
              => Allowed

\* C20 witness: an access token minted in the last second of the refresh
\* token's validity is allowed after the refresh token has expired
C20_Witness ==
    /\ Allowed
    /\ \E r \in Issuances : \E a \in wallet \ Issuances :
          /\ resp.event.authorizationToken = Str(Bearer(a))
          /\ a[1].payload.iat = r[1].payload.exp - 1
          /\ clock > r[1].payload.exp
          /\ clock < Bound(r)

\* the outcome of a call made alone under the present clock and environment
RunAlone(call) ==
    CASE call.op = "issue" ->
            generate_tokens(call.user_id, envSecret, Utcnow(clock, 0))
      [] call.op = "refresh" ->
            refresh_access_token(call.refresh_token, envSecret, Utcnow(clock, 0))
      [] call.op = "authorize" ->
            authorizer_lambda_handler(call.event, envSecret, envPath, ssmParam, clock)

\* every finished call has the outcome it has when made alone, and the
\* tokens of a finished issuance decode to the user_id it was called with
C12_ResultsAlone ==
    \A p \in Procs :
        frames[p].pc = "done" =>
            /\ frames[p].out = RunAlone(frames[p].call)
            /\ (frames[p].call.op = "issue" /\ frames[p].out.ok) =>
                  /\ Decoded(frames[p].out.val.access_token).ok
                  /\ Decoded(frames[p].out.val.access_token).val.sub
                        = frames[p].call.user_id
                  /\ SubOf(frames[p].out.val.refresh_token) = frames[p].call.user_id

\* C12: no slice of an issue, refresh or authorize call writes the secret,
\* the path setting, the parameter or a record of handed-out or used
\* tokens, and under every interleaving of the slices of overlapping calls
\* each finished call has the outcome it has when made alone with the same
\* input, clock value and configuration; overlapping issuances for distinct
\* subjects return tokens of their own subject.
C12_NoSharedState ==
    [][ /\ frames' # frames =>
              UNCHANGED <<envSecret, envPath, ssmParam, wallet, used>>
        /\ C12_ResultsAlone' ]_vars

\* C12 witness: an issuance for u1 has returned tokens of subject u1 while
\* an issuance for u2, begun under the same clock value, is about to sign
C12_Witness ==
    \E p, q \in Procs :
        /\ frames[p].pc = "done"
        /\ frames[p].call = [op |-> "issue", user_id |-> "u1"]
        /\ frames[p].out.ok
        /\ SubOf(frames[p].out.val.access_token) = "u1"
        /\ frames[q].pc = "gen_encode"
        /\ frames[q].call = [op |-> "issue", user_id |-> "u2"]
        /\ frames[q].loc.payloads[1].sub = "u2"

\* the attribute names the SET expression of request rq assigns
SetNames(rq) == {rq.Set[i][1] : i \in 1..Len(rq.Set)}

\* C21: update_payment_status(payment_id, s) with s one of pending,
\* processing, completed, failed, refunded sends one update whose Key is
\* {payment_id: payment_id} and whose SET assigns exactly status, updated_at
\* (and metadata when given), after which the item with that payment_id has
\* status s and every other item is as before; with any other s it returns
\* INVALID_STATUS, sends nothing and leaves the table as it was.
C21_UpdateByKey ==
    pay.op = "update" =>
        IF pay.new_status \in ValidStatuses
        THEN /\ Len(pay.sent) = 1
             /\ pay.sent[1].Key.t = "dict"
             /\ pay.sent[1].Key.v = [payment_id |-> pay.payment_id]
             /\ SetNames(pay.sent[1]) =
                    {"status", "updated_at"}
                    \cup (IF Truthy(pay.metadata) THEN {"metadata"} ELSE {})
             /\ table[pay.payment_id] # NoItem
             /\ table[pay.payment_id].status = pay.new_status
             /\ \A id \in PaymentIds \ {pay.payment_id} : table[id] = pay.before[id]
        ELSE /\ pay.out = Failure("INVALID_STATUS")
             /\ pay.sent = <<>>
             /\ table = pay.before

\* the payment data have the three required fields, an amount that is a
\* number greater than 0, a currency of USD/EUR/MXN and a method of
\* credit_card/debit_card/transfer
ValidData(d) ==
    /\ d.amount.t = "num" /\ d.amount.n > 0
    /\ d.currency \in {Text("USD"), Text("EUR"), Text("MXN")}
    /\ d.payment_method \in {Text("credit_card"), Text("debit_card"), Text("transfer")}

\* C22: register_payment with data that lack a required field or have an
\* invalid amount, currency or method returns INVALID_DATA, sends nothing
\* to the table and leaves it as it was; with valid data it sends exactly
\* one insert, of an item with status pending and a payment_id that is
\* fresh, whatever payment_id and status the caller supplied.
C22_InsertOnlyValid ==
    pay.op = "register" =>
        IF ~ValidData(pay.data)
        THEN /\ pay.out = Failure("INVALID_DATA")
             /\ pay.sent = <<>>
             /\ table = pay.before
        ELSE /\ Len(pay.sent) = 1
             /\ "Item" \in DOMAIN pay.sent[1]
             /\ pay.sent[1].Item.status = "pending"
             /\ pay.sent[1].Item.payment_id \in FreshIds
             /\ pay.before[pay.sent[1].Item.payment_id] = NoItem
             /\ Text(pay.sent[1].Item.payment_id) # pay.data.payment_id

\* C23: the register-payment handler answers 201 when the service reports
\* success, 400 when it reports a failure other than INTERNAL_ERROR, and 500
\* when it reports INTERNAL_ERROR or was not reached because of an
\* exception; and a request answered 500 has stored no payment.
C23_StatusMapping ==
    pay.op = "handler" =>
        /\ pay.out.statusCode \in {201, 400, 500}
        /\ ~pay.result.called => pay.out.statusCode = 500
        /\ pay.result.called =>
              pay.out.statusCode =
                 IF pay.result.val.success THEN 201
                 ELSE IF pay.result.val.error_code = "INTERNAL_ERROR" THEN 500
                 ELSE 400
        /\ pay.out.statusCode = 500 => table = pay.before

====
